---- MODULE Spec2Model ----
(***************************************************************************)
(* A model of scripts/scrape-unicode.py: the script that walks the tables  *)
(* of two reference pages, collects (name, glyph) pairs per category in    *)
(* the dict `characters`, and prints one literal at the end.               *)
(*                                                                         *)
(* Python strings are sequences of one-character strings.  The Python      *)
(* value None and a missing child element (find() returning None) are the  *)
(* tokens None and Absent, which are no character sequences.               *)
(***************************************************************************)
EXTENDS Integers, Sequences, FiniteSets, TLC

None == <<"None">>
Absent == <<"Absent">>

\* Python truthiness of a str-or-None value: `not x`.
Falsy(x) == x = None \/ x = <<>>

----------------------------------------------------------------------------
(* str methods *)

Whitespace == {" "}

RECURSIVE LStrip(_)
LStrip(s) ==
  IF s # <<>> /\ Head(s) \in Whitespace THEN LStrip(Tail(s)) ELSE s

RECURSIVE RStrip(_)
RStrip(s) ==
  IF s # <<>> /\ s[Len(s)] \in Whitespace
  THEN RStrip(SubSeq(s, 1, Len(s) - 1)) ELSE s

\* str.strip()
strip(s) == RStrip(LStrip(s))

\* str.split(sep) for a one-character separator: every occurrence splits.
RECURSIVE SplitFrom(_, _, _)
SplitFrom(s, sep, cur) ==
  IF s = <<>> THEN <<cur>>
  ELSE IF Head(s) = sep THEN <<cur>> \o SplitFrom(Tail(s), sep, <<>>)
  ELSE SplitFrom(Tail(s), sep, Append(cur, Head(s)))

split(s, sep) == SplitFrom(s, sep, <<>>)

UpperCase == <<"A","B","C","D","E","F","G","H","I","J","K","L","M",
               "N","O","P","Q","R","S","T","U","V","W","X","Y","Z">>
LowerCase == <<"a","b","c","d","e","f","g","h","i","j","k","l","m",
               "n","o","p","q","r","s","t","u","v","w","x","y","z">>

IsUpper(c) == \E k \in DOMAIN UpperCase : UpperCase[k] = c
IsLower(c) == \E k \in DOMAIN LowerCase : LowerCase[k] = c
IsCased(c) == IsUpper(c) \/ IsLower(c)
upper(c) ==
  IF IsLower(c) THEN UpperCase[CHOOSE k \in DOMAIN LowerCase : LowerCase[k] = c]
  ELSE c
lower(c) ==
  IF IsUpper(c) THEN LowerCase[CHOOSE k \in DOMAIN UpperCase : UpperCase[k] = c]
  ELSE c

\* str.title(): a cased character is upper-cased when it follows an uncased
\* one (or starts the string) and lower-cased when it follows a cased one.
RECURSIVE TitleFrom(_, _)
TitleFrom(s, prevCased) ==
  IF s = <<>> THEN <<>>
  ELSE <<IF prevCased THEN lower(Head(s)) ELSE upper(Head(s))>>
         \o TitleFrom(Tail(s), IsCased(Head(s)))

title(s) == TitleFrom(s, FALSE)

\* `sub in s`
contains(s, sub) ==
  \E k \in 0 .. (Len(s) - Len(sub)) : SubSeq(s, k + 1, k + Len(sub)) = sub

----------------------------------------------------------------------------
(* The parsed documents *)

\* Bounds of the model.
MaxCells == 2      \* td[title] cells of one table

\* span.find("span").find("span").find("span"): the nesting below the child span.
SpanNesting == 3

Reserved == <<"R","e","s","e","r","v","e","d">>
SUPERSCRIPT == <<"S","U","P","E","R","S","C","R","I","P","T">>
SUBSCRIPT == <<"S","U","B","S","C","R","I","P","T">>

CodePoint == <<"U","+","1">>
PlainTitle == CodePoint \o <<":"," ","A","B"," ","C">>
SuperTitle == CodePoint \o <<":"," ">> \o SUPERSCRIPT \o <<" ","A">>
SubTitle == CodePoint \o <<":"," ">> \o SUBSCRIPT \o <<" ","A">>
TwoColonTitle == CodePoint \o <<":"," ","A",":"," ","B">>
EmptyNameTitle == CodePoint \o <<":"," ">>
NoColonTitle == CodePoint
Titles ==
  {Reserved, PlainTitle, SuperTitle, SubTitle, TwoColonTitle, EmptyNameTitle,
   NoColonTitle}

\* The text of a node: none, whitespace only, or a padded character.
NodeText(ch) == {None, <<" ">>, <<" ", ch, " ">>}

NoSpan == [present |-> FALSE, a |-> Absent, depth |-> 0, deep |-> None]
Spans ==
  {NoSpan}
    \cup {[present |-> TRUE, a |-> t, depth |-> 0, deep |-> None] :
            t \in NodeText("s")}
    \cup {[present |-> TRUE, a |-> Absent, depth |-> k, deep |-> None] :
            k \in 0 .. (SpanNesting - 1)}
    \cup {[present |-> TRUE, a |-> Absent, depth |-> SpanNesting, deep |-> t] :
            t \in NodeText("d")}

\* A td[title] cell: its title attribute, its direct text, its direct child
\* anchor (the anchor's text, or Absent) and its direct child span.
Td(ttl, txt, anchor, sp) == [title |-> ttl, text |-> txt, a |-> anchor, span |-> sp]

\* The well-formed cell of the table of landmark number n.
Glyph(n) == <<UpperCase[n]>>
GoodTd(ttl, n) == Td(ttl, Glyph(n), Absent, NoSpan)
GoodAnchorTd(ttl, n) == Td(ttl, None, Glyph(n), NoSpan)

\* The cells a table may hold besides well-formed ones: every title over a
\* cell that has text and an anchor, an empty Reserved cell, and, under the
\* title ttl, every shape of text, anchor and span (a cell with direct text
\* has no span, or a span that holds an anchor).
Tds(ttl) ==
  {Td(t, <<" ", "t", " ">>, <<" ", "a", " ">>, NoSpan) : t \in Titles}
    \cup {Td(Reserved, None, Absent, NoSpan)}
    \cup {Td(ttl, None, anchor, sp) :
            anchor \in {Absent} \cup NodeText("a"), sp \in Spans}
    \cup {Td(ttl, txt, anchor, sp) :
            txt \in NodeText("t") \ {None},
            anchor \in {Absent} \cup NodeText("a"),
            sp \in {NoSpan, [present |-> TRUE, a |-> <<" ", "s", " ">>,
                             depth |-> 0, deep |-> None]}}

\* A tr row: the number of its td children, the text of tds[1], the text of
\* tds[2] and the direct child anchor of tds[2].
Tr(n, t1, t2, anchor) == [ntd |-> n, c1 |-> t1, c2 |-> t2, c2a |-> anchor]
HeaderTr == Tr(0, None, None, Absent)
GoodTr(n) == Tr(3, Glyph(n), <<"N">>, <<"n">>)
Trs ==
  {HeaderTr}
    \cup {Tr(3, t1, t2, anchor) :
            t1 \in NodeText("g"), t2 \in NodeText("n"),
            anchor \in {Absent} \cup NodeText("a")}

\* Sequences of at most n items that are all `good` but at most one, which is
\* any item of `any`.
OneOdd(any, good, n) ==
  {<<>>}
    \cup {[k \in 1 .. len |-> good] : len \in 1 .. n}
    \cup UNION {{[k \in 1 .. len |-> IF k = at THEN odd ELSE good] :
                   odd \in any, at \in 1 .. len} : len \in 1 .. n}

\* An element: its tag, the td[title] cells below it and the tr rows below it.
Element(tg, cells, rows) == [tag |-> tg, tds |-> cells, trs |-> rows]
\* Navigation that leaves the tree (getparent() or getnext() returning None).
NoElement == Element("None", <<>>, <<>>)
Prose == Element("p", <<>>, <<>>)
----------------------------------------------------------------------------
(* The blocks of the script, in program order *)

\* A block: its loop, its landmark, the list variable its loop fills and the
\* assignments into `characters` that end it.
Block(k, lm, v, st) == [kind |-> k, landmark |-> lm, var |-> v, stores |-> st]

Blocks ==
  << Block("unicode_symbols", "#Table_Unicode_symbols", "unicode_symbols",
           << <<"Unicode Symbols", "unicode_symbols">> >>),
     Block("general_punctuation", "General Punctuation",
           "general_punctuation_symbols",
           << <<"General Punctuation", "general_punctuation_symbols">> >>),
     Block("subsup", "Superscripts and Subscripts", "superscript_symbols",
           << <<"Subscript Symbols", "subscript_symbols">>,
              <<"Superscript Symbols", "superscript_symbols">> >>),
     Block("resolve_table", "Currency Symbols (Unicode block)", "currency_symbols",
           << <<"Currency Symbols", "currency_symbols">> >>),
     Block("resolve_table", "Letterlike Symbols", "letterlike_symbols",
           << <<"Letterlike Symbols", "letterlike_symbols">> >>),
     Block("resolve_table", "Number Forms", "number_forms",
           << <<"Number Forms", "number_forms">> >>),
     Block("resolve_table", "Arrows (Unicode block)", "arrow_symbols",
           << <<"Arrow Symbols", "arrow_symbols">> >>),
     Block("resolve_table", "Mathematical Operators (Unicode block)", "math_symbols",
           << <<"Math Symbols", "math_symbols">> >>),
     Block("resolve_table", "Miscellaneous Technical", "misc_technical_symbols",
           << <<"Misc Technical Symbols", "math_symbols">> >>),
     Block("resolve_table", "Enclosed Alphanumerics", "enclosed_alphanumeric_symbols",
           << <<"Enclosed Alphanumeric Symbols", "enclosed_alphanumeric_symbols">> >>),
     Block("resolve_table", "Box Drawing", "box_drawing_symbols",
           << <<"Box Drawing Symbols", "box_drawing_symbols">> >>),
     Block("resolve_table", "Box Drawing", "block_element_symbols",
           << <<"Block Element Symbols", "block_element_symbols">> >>),
     Block("resolve_table", "Box Drawing", "geometric_shape_symbols",
           << <<"Geometric Shape Symbols", "geometric_shape_symbols">> >>),
     Block("resolve_table", "Symbols for Legacy Computing", "legacy_computing_symbols",
           << <<"Legacy Computing Symbols", "legacy_computing_symbols">> >>),
     Block("resolve_table", "Miscellaneous Symbols", "misc_symbols",
           << <<"Misc Symbols", "misc_symbols">> >>),
     Block("dingbats", "Dingbats (Unicode block)", "dingbats_symbols",
           << <<"Dingbats", "dingbats_symbols">> >>),
     Block("resolve_table", "Alchemical Symbols (Unicode block)", "alchemical_symbols",
           << <<"Alchemical Symbols", "alchemical_symbols">> >>),
     Block("resolve_table", "Mahjong Tiles (Unicode block)", "mahjong_tiles",
           << <<"Mahjong Tiles", "mahjong_tiles">> >>),
     Block("resolve_table", "Domino Tiles", "domino_tiles",
           << <<"Domino Tiles", "domino_tiles">> >>),
     Block("resolve_table", "Playing Cards (Unicode block)", "playing_cards",
           << <<"Playing Cards", "playing_cards">> >>),
     Block("chess", "U+2654: WHITE CHESS KING", "chess_symbols",
           << <<"Chess Symbols", "chess_symbols">> >>),
     Block("emoji", "U+00A9: COPYRIGHT SIGN", "emoji_symbols",
           << <<"Emojis", "emoji_symbols">> >>) >>

NBlocks == Len(Blocks)
RowKinds == {"unicode_symbols", "dingbats"}
ResolveTableKinds == {"subsup", "resolve_table"}
CellTitleKinds == ResolveTableKinds \cup {"general_punctuation", "chess", "emoji"}

Landmarks == {Blocks[b].landmark : b \in 1 .. NBlocks}
KindOf(lm) == Blocks[CHOOSE b \in 1 .. NBlocks : Blocks[b].landmark = lm].kind
\* The number of the first block that uses the landmark.
NumberOf(lm) == CHOOSE b \in 1 .. NBlocks :
                  /\ Blocks[b].landmark = lm
                  /\ \A c \in 1 .. (b - 1) : Blocks[c].landmark # lm

\* The title of a well-formed cell of the table of a landmark.
TitleFor(lm) == IF KindOf(lm) = "subsup" THEN SuperTitle ELSE PlainTitle

\* The table the page holds for a landmark when the page is as the script
\* expects it: a header row and a data row, or one data cell.
DefaultTable(lm) ==
  IF KindOf(lm) = "unicode_symbols"
  THEN Element("table", <<>>, <<HeaderTr, GoodTr(NumberOf(lm)), HeaderTr>>)
  ELSE IF KindOf(lm) = "dingbats"
  THEN Element("table", <<>>, <<HeaderTr, GoodTr(NumberOf(lm))>>)
  ELSE IF KindOf(lm) = "general_punctuation"
  THEN Element("table", <<GoodAnchorTd(TitleFor(lm), NumberOf(lm))>>, <<>>)
  ELSE Element("table", <<GoodTd(TitleFor(lm), NumberOf(lm))>>, <<>>)

\* The elements the navigation from a match of the landmark may reach.
Elements(lm) ==
  IF KindOf(lm) \in RowKinds
  THEN {Element("table", <<>>, rows) :
          rows \in OneOdd(Trs, GoodTr(NumberOf(lm)), MaxCells + 1)}
         \cup {Element("div", <<>>, DefaultTable(lm).trs)}
         \cup (IF KindOf(lm) = "dingbats" THEN {NoElement} ELSE {})
  ELSE {Element("table", cells, <<>>) :
          cells \in OneOdd(Tds(TitleFor(lm)),
                           DefaultTable(lm).tds[1], MaxCells)}
         \cup {Element("div", DefaultTable(lm).tds, <<>>), NoElement}

\* What a landmark selector finds: for each match, in document order, the
\* element the block's navigation reaches from it.  A second match is a
\* mention in prose, before or after the one of the table.
Found(lm) ==
  {<<>>, <<Prose, DefaultTable(lm)>>, <<DefaultTable(lm), Prose>>}
    \cup {<<e>> : e \in Elements(lm)}

VARIABLES
  d,           \* the fetched pages: one landmark and what its selector finds
  blk,         \* the block of the script being run
  pc,          \* "resolve", "loop", "serialize", "done" or "failed"
  i,           \* the position of the running for loop in its iterable
  globals,     \* the list variables bound so far
  characters,  \* the dict: <<key, list variable>> pairs in insertion order
  out          \* what has been written to standard output

vars == <<d, blk, pc, i, globals, characters, out>>

\* d(selector): the matches of a landmark's selector.
Select(lm) == IF lm = d.lm THEN d.found ELSE <<DefaultTable(lm)>>

Last(seq) == seq[Len(seq)]

RECURSIVE AllTrs(_)
AllTrs(found) ==
  IF found = <<>> THEN <<>> ELSE Head(found).trs \o AllTrs(Tail(found))

----------------------------------------------------------------------------
(* What one pass of a loop body does with its item *)

Skip == [op |-> "continue", name |-> None, letter |-> None]
Raised == [op |-> "raise", name |-> None, letter |-> None]
Emit(n, l) == [op |-> "append", name |-> n, letter |-> l]

\* A comparison with the wrong spelling of the sentinel.
IsReservedLower(ttl) == ttl = <<"r","e","s","e","r","v","e","d">>

\* title == "Reserved"
IsReserved(ttl) == ttl = Reserved

\* title.split(":")[1].strip(), which raises IndexError without a colon.
NameRaises(ttl) == Len(split(ttl, ":")) < 2
Name(ttl) == strip(split(ttl, ":")[2])

\* Lines 60-70: the anchor and span lookups made when td.text is empty.
Fallback(td) ==
  LET afterA == IF td.a # Absent THEN td.a ELSE td.text
  IN  IF ~td.span.present THEN [raised |-> FALSE, v |-> afterA]
      ELSE IF td.span.a # Absent THEN [raised |-> FALSE, v |-> td.span.a]
      ELSE IF td.span.depth < SpanNesting THEN [raised |-> TRUE, v |-> None]
      ELSE [raised |-> FALSE, v |-> td.span.deep]

\* The lookups made whether or not the cell has direct text.
LetterAlwaysFallsBack(td) == Fallback(td)

\* Lines 58-70: td.text, and the lookups only `if not letter`.
Letter(td) ==
  IF ~Falsy(td.text) THEN [raised |-> FALSE, v |-> td.text] ELSE Fallback(td)

resolve_table(td) ==
  IF IsReserved(td.title) THEN Skip
  ELSE IF NameRaises(td.title) THEN Raised
  ELSE IF Letter(td).raised \/ Letter(td).v = None THEN Raised
  ELSE Emit(Name(td.title), strip(Letter(td).v))

general_punctuation_symbols(td) ==
  IF IsReserved(td.title) THEN Skip
  ELSE IF NameRaises(td.title) THEN Raised
  ELSE IF td.a = Absent THEN Raised
  ELSE IF Falsy(td.a) THEN Skip
  ELSE Emit(Name(td.title), td.a)

chess_symbols(td) ==
  IF IsReserved(td.title) THEN Skip
  ELSE IF NameRaises(td.title) THEN Raised
  ELSE IF td.text = None THEN Raised
  ELSE Emit(Name(td.title), strip(td.text))

emoji_symbols(td) ==
  IF IsReserved(td.title) THEN Skip
  ELSE IF NameRaises(td.title) THEN Raised
  ELSE IF ~Falsy(td.text) THEN Emit(Name(td.title), strip(td.text))
  ELSE IF td.a = Absent \/ td.a = None THEN Raised
  ELSE Emit(Name(td.title), strip(td.a))

unicode_symbols(tr) ==
  IF tr.ntd < 3 THEN Raised
  ELSE IF tr.c2a = Absent \/ tr.c2a = None THEN Raised
  ELSE IF tr.c1 = None THEN Raised
  ELSE Emit(strip(tr.c2a), strip(tr.c1))

dingbats_symbols(tr) ==
  IF tr.ntd < 3 THEN Raised
  ELSE IF Falsy(tr.c2) /\ (tr.c2a = Absent \/ tr.c2a = None) THEN Raised
  ELSE IF tr.c1 = None THEN Raised
  ELSE Emit(strip(IF Falsy(tr.c2) THEN tr.c2a ELSE tr.c2), strip(tr.c1))

\* The body of the loop of a kind of block, applied to one item.
Body(kind, item) ==
  CASE kind = "unicode_symbols" -> unicode_symbols(item)
    [] kind = "dingbats" -> dingbats_symbols(item)
    [] kind = "general_punctuation" -> general_punctuation_symbols(item)
    [] kind = "chess" -> chess_symbols(item)
    [] kind = "emoji" -> emoji_symbols(item)
    [] OTHER -> resolve_table(item)

\* Lines 78-84: the list a (name, letter) of the first resolve_table loop goes
\* to, or Absent where the loop asserts False.
SubSupTarget(name) ==
  IF contains(name, SUPERSCRIPT) THEN "superscript_symbols"
  ELSE IF contains(name, SUBSCRIPT) THEN "subscript_symbols"
  ELSE "Absent"

\* The list variable the loop of block b appends (name, letter) to.
Target(b, name) ==
  IF Blocks[b].kind = "subsup" THEN SubSupTarget(name) ELSE Blocks[b].var

\* What the for loop of block b iterates over.
Iterable(b) ==
  LET found == Select(Blocks[b].landmark)
      rows == AllTrs(found)
  IN  CASE Blocks[b].kind = "unicode_symbols" -> SubSeq(rows, 2, Len(rows) - 1)
        [] Blocks[b].kind = "dingbats" -> SubSeq(Last(found).trs, 2, Len(Last(found).trs))
        [] OTHER -> Last(found).tds

\* The landmark lookup, the navigation and the assertion of block b fail.
ResolveRaises(b) ==
  LET found == Select(Blocks[b].landmark)
  IN  \/ found = <<>>
      \/ Last(found) = NoElement
      \/ Last(found).tag # "table"

----------------------------------------------------------------------------
(* The run *)

Init ==
  /\ d \in UNION {{[lm |-> lm, found |-> f] : f \in Found(lm)} : lm \in Landmarks}
  /\ blk = 1
  /\ pc = "resolve"
  /\ i = 1
  /\ globals = <<>>
  /\ characters = <<>>
  /\ out = <<>>

\* x = []
Bind(g, v) == (v :> <<>>) @@ g
BindAll(b) ==
  IF Blocks[b].kind = "subsup"
  THEN Bind(Bind(globals, "subscript_symbols"), "superscript_symbols")
  ELSE Bind(globals, Blocks[b].var)

\* characters[key] = ref
Put(dict, key, ref) ==
  IF \E k \in DOMAIN dict : dict[k][1] = key
  THEN [k \in DOMAIN dict |-> IF dict[k][1] = key THEN <<key, ref>> ELSE dict[k]]
  ELSE Append(dict, <<key, ref>>)

RECURSIVE PutAll(_, _)
PutAll(dict, stores) ==
  IF stores = <<>> THEN dict
  ELSE PutAll(Put(dict, Head(stores)[1], Head(stores)[2]), Tail(stores))

\* The exception is swallowed and the script goes on with the next block.
RaiseSkipsBlock ==
  /\ IF blk = NBlocks
     THEN pc' = "serialize" /\ blk' = blk
     ELSE pc' = "resolve" /\ blk' = blk + 1
  /\ i' = 1

\* An exception nothing catches ends the run.
Raise == pc' = "failed" /\ UNCHANGED <<blk, i>>

\* Line 18: the rows are taken from whatever the id selects.
UnicodeSymbolsStart ==
  /\ pc = "resolve"
  /\ Blocks[blk].kind = "unicode_symbols"
  /\ globals' = BindAll(blk)
  /\ pc' = "loop"
  /\ i' = 1
  /\ UNCHANGED <<d, blk, characters, out>>

\* The landmark, the navigation to its table and the assertion.
LandmarkStart ==
  /\ pc = "resolve"
  /\ Blocks[blk].kind # "unicode_symbols"
  /\ IF ResolveRaises(blk)
     THEN /\ Raise
          /\ globals' = IF Blocks[blk].kind \in ResolveTableKinds
                        THEN BindAll(blk) ELSE globals
     ELSE /\ globals' = BindAll(blk)
          /\ pc' = "loop"
          /\ i' = 1
          /\ UNCHANGED blk
  /\ UNCHANGED <<d, characters, out>>

\* One pass of the loop of the block.
Step ==
  /\ pc = "loop"
  /\ i <= Len(Iterable(blk))
  /\ LET r == Body(Blocks[blk].kind, Iterable(blk)[i])
         t == Target(blk, r.name)
     IN  CASE r.op = "raise" -> Raise /\ UNCHANGED globals
           [] r.op = "continue" -> /\ i' = i + 1
                                   /\ UNCHANGED <<blk, pc, globals>>
           [] OTHER ->
                IF t = "Absent" THEN Raise /\ UNCHANGED globals
                ELSE /\ globals' = [globals EXCEPT ![t] =
                                      Append(@, [name |-> r.name, letter |-> r.letter])]
                     /\ i' = i + 1
                     /\ UNCHANGED <<blk, pc>>
  /\ UNCHANGED <<d, characters, out>>

\* The loop is over: characters[...] = ..., and on to the next block.
Store ==
  /\ pc = "loop"
  /\ i > Len(Iterable(blk))
  /\ characters' = PutAll(characters, Blocks[blk].stores)
  /\ IF blk = NBlocks
     THEN pc' = "serialize" /\ UNCHANGED blk
     ELSE pc' = "resolve" /\ blk' = blk + 1
  /\ i' = 1
  /\ UNCHANGED <<d, globals, out>>

\* Lines 269-279: the groups of the literal, each name title-cased.
Literal ==
  [k \in DOMAIN characters |->
     [group |-> characters[k][1],
      letters |-> [n \in DOMAIN globals[characters[k][2]] |->
                     <<title(globals[characters[k][2]][n].name),
                       globals[characters[k][2]][n].letter>>]]]

\* Line 280: print.
Serialize ==
  /\ pc = "serialize"
  /\ out' = Append(out, Literal)
  /\ pc' = "done"
  /\ UNCHANGED <<d, blk, i, globals, characters>>

Next == UnicodeSymbolsStart \/ LandmarkStart \/ Step \/ Store \/ Serialize

Spec == Init /\ [][Next]_vars
----------------------------------------------------------------------------
(* Properties *)

Kind == Blocks[blk].kind
\* The loop of the block is about to run its body on an item.
AtItem == pc = "loop" /\ i <= Len(Iterable(blk))
Item == Iterable(blk)[i]
\* The step appends one (name, letter), and e is what it appends.
Appends(e) ==
  \E v \in DOMAIN globals :
    /\ globals' = [globals EXCEPT ![v] = Append(@, e)]
\* Some (name, letter) is appended by the step.
AppendsAny ==
  \E v \in DOMAIN globals :
    /\ Len(globals'[v]) = Len(globals[v]) + 1
    /\ Appends(Last(globals'[v]))
Appended == Last(globals'[CHOOSE v \in DOMAIN globals : globals'[v] # globals[v]])
\* The loop goes on to its next item and nothing else changes.
Continues == i' = i + 1 /\ pc' = "loop" /\ blk' = blk /\ out' = out
HasColon(ttl) == \E k \in DOMAIN ttl : ttl[k] = ":"
\* The entries `characters` holds under a key.
Entries(key) ==
  globals[characters[CHOOSE k \in DOMAIN characters : characters[k][1] = key][2]]
HasKey(key) == \E k \in DOMAIN characters : characters[k][1] = key
Keys(b) == {Blocks[b].stores[k][1] : k \in DOMAIN Blocks[b].stores}

\* C1: every (name, glyph) pair appended to a category list has a non-empty
\* name and a non-empty glyph.
EntriesNonEmpty ==
  \A v \in DOMAIN globals :
    \A k \in DOMAIN globals[v] :
      globals[v][k].name # <<>> /\ globals[v][k].letter # <<>>

\* C2: in the loops over td[title] cells, a cell whose title is exactly
\* "Reserved" appends nothing, whatever it contains, and the loop goes on to
\* the next cell.
ReservedSkipped ==
  [][(AtItem /\ Kind \in CellTitleKinds /\ Item.title = Reserved)
       => (Continues /\ globals' = globals /\ characters' = characters)]_vars

\* A Reserved cell that holds text and an anchor was passed over and the cell
\* after it gave the list its one entry.
ReservedSkippedWitness ==
  /\ pc = "loop"
  /\ Kind \in CellTitleKinds
  /\ i = 3
  /\ Iterable(blk)[1].title = Reserved
  /\ Iterable(blk)[1].text # None
  /\ Len(globals[Blocks[blk].var]) = 1

\* C3: in resolve_table, a cell that is not Reserved and has non-empty direct
\* text and an anchor with another text yields the direct text, trimmed: where
\* its title has a colon an entry is appended (the first loop asserts on a
\* name that is neither a superscript nor a subscript), and whatever is
\* appended has the trimmed direct text as its glyph.
DirectTextWins ==
  [][(/\ AtItem
      /\ Kind \in ResolveTableKinds
      /\ Item.title # Reserved
      /\ ~Falsy(Item.text)
      /\ Item.a # Absent
      /\ Item.a # Item.text)
       => /\ (HasColon(Item.title) /\ Kind = "resolve_table") => AppendsAny
          /\ AppendsAny => Appended.letter = strip(Item.text)
          /\ AppendsAny \/ (pc' = "failed" /\ globals' = globals)]_vars

\* resolve_table has passed a cell with direct text " t " and an anchor " a ",
\* and the entry it appended has the glyph "t".
DirectTextWinsWitness ==
  /\ pc = "loop"
  /\ Kind \in ResolveTableKinds
  /\ i = 2
  /\ Iterable(blk)[1].text = <<" ", "t", " ">>
  /\ Iterable(blk)[1].a = <<" ", "a", " ">>
  /\ Len(globals[Blocks[blk].var]) = 1
  /\ globals[Blocks[blk].var][1].letter = <<"t">>

\* The first of the four producers, in order, that yields non-empty text.
FirstProducer(td) ==
  IF ~Falsy(td.text) THEN td.text
  ELSE IF td.a # Absent /\ ~Falsy(td.a) THEN td.a
  ELSE IF td.span.present /\ td.span.a # Absent /\ ~Falsy(td.span.a) THEN td.span.a
  ELSE IF td.span.present /\ td.span.depth = SpanNesting THEN td.span.deep
  ELSE None

\* No text of the cell is whitespace only, so that "non-empty" is the same
\* before and after trimming.
NoBlankText(td) ==
  \A t \in {td.text, td.a, td.span.a, td.span.deep} : strip(t) # <<>>

\* C4: in resolve_table the glyph of a cell is the text of the first producer
\* (direct text, child anchor, anchor in a child span, text three spans deep)
\* that yields non-empty text; a later producer never replaces it.  Stated for
\* the cells none of whose texts is whitespace only.
FirstProducerWins ==
  [][(AtItem /\ Kind \in ResolveTableKinds /\ NoBlankText(Item) /\ AppendsAny)
       => /\ FirstProducer(Item) # None
          /\ Appended.letter = strip(FirstProducer(Item))]_vars

\* The elements whose rows or cells the loop of the block reads.
ReadElements(b) ==
  LET found == Select(Blocks[b].landmark)
  IN  IF Blocks[b].kind = "unicode_symbols"
      THEN {found[k] : k \in {n \in DOMAIN found : found[n].trs # <<>>}}
      ELSE {Last(found)}

\* C5: no category reads a row or a cell of an element that is not a table:
\* once a loop has run its body, the element it reads is a table.
OnlyTablesAreRead ==
  (pc = "loop" /\ i > 1) => \A e \in ReadElements(blk) : e.tag = "table"

\* A cell from which no producer can take text.
NoGlyphText(td) ==
  /\ td.text = None
  /\ td.a \in {Absent, None}
  /\ \/ ~td.span.present
     \/ /\ td.span.a \in {Absent, None}
        /\ td.span.depth < SpanNesting \/ td.span.deep = None

\* C6: in the loops over td[title] cells, a cell with a proper title and no
\* extractable glyph text is passed over: nothing is appended, the run does
\* not end, the loop goes on to the next cell.
MissingGlyphSkipped ==
  [][(/\ AtItem
      /\ Kind \in CellTitleKinds
      /\ Item.title # Reserved
      /\ HasColon(Item.title)
      /\ NoGlyphText(Item))
       => (Continues /\ globals' = globals)]_vars

\* Block b raises on the pages d: at its landmark, or in its loop.
BlockRaises(b) ==
  \/ Blocks[b].kind # "unicode_symbols" /\ ResolveRaises(b)
  \/ /\ Blocks[b].kind = "unicode_symbols" \/ ~ResolveRaises(b)
     /\ \E k \in DOMAIN Iterable(b) :
          LET r == Body(Blocks[b].kind, Iterable(b)[k])
          IN  \/ r.op = "raise"
              \/ r.op = "append" /\ Target(b, r.name) = "Absent"

\* C7: the literal is written only when the run is done, every block has
\* stored its keys and no block has raised; a run that fails has written
\* nothing and takes no further step.
AllOrNothing ==
  /\ [](out # <<>> =>
          /\ pc = "done"
          /\ \A b \in 1 .. NBlocks :
               ~BlockRaises(b) /\ \A key \in Keys(b) : HasKey(key))
  /\ [](pc = "failed" => out = <<>>)
  /\ [][pc # "failed"]_vars

\* A run that failed after some category had been stored, with nothing written.
AllOrNothingWitness ==
  /\ pc = "failed"
  /\ blk > 1
  /\ characters # <<>>
  /\ BlockRaises(blk)
  /\ out = <<>>

\* C8: when the run is done, every key of `characters` holds the list that
\* the loop of its own block filled, and no two blocks use one landmark.
OwnListStored ==
  pc = "done" =>
    /\ \A b \in 1 .. NBlocks :
         Blocks[b].kind # "subsup" =>
           \A key \in Keys(b) : Entries(key) = globals[Blocks[b].var]
    /\ \A b, c \in 1 .. NBlocks :
         b # c => Blocks[b].landmark # Blocks[c].landmark

\* What follows the first colon of a title.
AfterFirstColon(ttl) ==
  LET at == CHOOSE k \in DOMAIN ttl :
              ttl[k] = ":" /\ \A n \in 1 .. (k - 1) : ttl[n] # ":"
  IN  SubSeq(ttl, at + 1, Len(ttl))

\* C9: the serialized name of an entry of a loop over td[title] cells is the
\* title-cased, trimmed text that follows the first colon of the cell's title,
\* also when the title holds a second colon.
NameIsAfterFirstColon ==
  [][(AtItem /\ Kind \in CellTitleKinds /\ AppendsAny)
       => title(Appended.name) = title(strip(AfterFirstColon(Item.title)))]_vars

\* C10: a block whose landmark selector matches nothing never stores its keys,
\* and nothing is written.
NoMatchIsFatal ==
  \A b \in 1 .. NBlocks :
    Select(Blocks[b].landmark) = <<>> =>
      (out = <<>> /\ \A key \in Keys(b) : ~HasKey(key))
====
